---- MODULE Spec2Model ----
(***************************************************************************)
(* A model of TrackerParameterFinder.cpp (OSVR-Core, unified video/inertial *)
(* tracker plugin): the CSV measurement loader (LoadRow, loadData), the     *)
(* PoseFilter wrapper, the two replay strategies (MainAlgoUnderStudy,       *)
(* RansacOneEuro), the replay loop of main, updateConfigFromVec, ei_newuoa  *)
(* and runOptimizer; and of the routers of VRPNContext.cpp.                 *)
(*                                                                          *)
(* Numbers are integers.  A CSV field is a sequence of characters; a digit  *)
(* character is one of "0".."9" and "x" stands for any character that is   *)
(* not part of a number.                                                    *)
(***************************************************************************)
EXTENDS Integers, Sequences, FiniteSets, TLC

VARIABLES
    pc,            \* position of the running function
    csvFile,       \* loadData: state of the input stream
    headerRow,     \* loadData: <<the first line>>, once read
    linesInFile,   \* the number of lines the file holds after its first line
    dataLine,      \* loadData: std::string dataLine, as a sequence of fields
    linesRead,     \* loadData: number of data lines taken from the stream
    nextField,     \* iterateFields: index of the next field of dataLine
    keepGoing,     \* iterateFields: the callback has not yet returned false
    newRow,        \* loadData: <<*newRow>>, or <<>> once moved from
    field_,        \* LoadRow::field_
    measurementPieces_, \* LoadRow::measurementPieces_
    ret,           \* loadData: the vector being built and returned
    reportedTotal, \* loadData: what "Total of N rows" printed, <<>> if nothing
    validLines     \* history: the numbers of the data lines read so far whose
                   \* required fields are all present and parseable

loadVars == <<pc, csvFile, headerRow, linesInFile, dataLine, linesRead, nextField, keepGoing,
              newRow, field_, measurementPieces_, ret, reportedTotal,
              validLines>>

VARIABLES
    poseFilter,    \* a PoseFilter object
    filterCall,    \* history: <<the last call of poseFilter.filter>>
    filterCalls    \* history: the number of calls of poseFilter.filter

filterVars == <<poseFilter, filterCall, filterCalls>>

VARIABLES
    system,        \* the tracking system with its body 0 and target 0
    mainAlgo,      \* the MainAlgoUnderStudy object
    ransacOneEuro, \* the RansacOneEuro object
    replayRow,     \* <<the row being replayed>>
    stage,         \* position in the replay of that row
    rowsReplayed,  \* the number of rows replayed so far
    lastSuccess,   \* history: <<timestamp of the last row RANSAC succeeded on>>
    ransacCall     \* history: <<the last call of ransacOneEuro>>

replayVars == <<system, mainAlgo, ransacOneEuro, replayRow, stage, rowsReplayed,
                lastSuccess, ransacCall>>

VARIABLES
    data,          \* main: the log loadData returned
    dataIt,        \* main: the position of the range-for in data
    calls,         \* history: the strategy invocations main has made
    stdout         \* what the replay has written to std::cout

driverVars == <<data, dataIt, calls, stdout>>

VARIABLES
    params,        \* a ConfigParams object
    configCall,    \* history: <<the last call of updateConfigFromVec>>
    configCalls    \* history: the number of calls of updateConfigFromVec

configVars == <<params, configCall, configCalls>>

VARIABLES
    optStage,      \* position in runOptimizer
    optX,          \* runOptimizer: ParamVec x
    rho,           \* the radius pair handed to ei_newuoa
    newuoaArgs,    \* <<the arguments newuoa was called with>>
    evals,         \* the number of objective evaluations newuoa has made
    evalCall,      \* history: <<the last objective evaluation>>
    evalLeft,      \* <<what the last evaluation's locals held when it ended>>
    optRet         \* <<the value ei_newuoa returned>>

optVars == <<optStage, optX, rho, newuoaArgs, evals, evalCall, evalLeft, optRet>>

VARIABLES
    m_interfaces,  \* VRPNContext: the client interfaces of the context
    inbox,         \* per router, the tracker reports its remote has not yet
                   \* handed to the change handler
    updateIt,      \* m_update: the router whose mainloop runs, 0 outside
    reportsSent,   \* history: the sensors of the reports sent so far
    triggered      \* history: per interface, the reports its callbacks got

vrpnVars == <<m_interfaces, inbox, updateIt, reportsSent, triggered>>

\* the variables of the parameter mapping, the optimizer wrapper and the VRPN
\* context
toolVars == <<configVars, optVars, vrpnVars>>

\* the variables of main's replay and of the tools
otherVars == <<driverVars, toolVars>>

vars == <<loadVars, filterVars, replayVars, otherVars>>

-----------------------------------------------------------------------------
(* Bounds of the model *)

\* data lines that follow the header
MaxLines == 2
\* fields of a data line after the nine required ones
MaxTrailing == 6
\* fields that follow an unparseable field on the same line
MaxAfterBad == 1
\* calls of PoseFilter::filter on one object
MaxFilterCalls == 3
\* rows replayed through the strategies
MaxRows == 3
\* the largest seconds field of a replayed row's timestamp
MaxSec == 1
\* beacon measurements of a replayed row
MaxBeacons == 1
\* rows of the log main replays
MaxLog == 2
\* calls of updateConfigFromVec on one ConfigParams
MaxConfigCalls == 2
\* tracker reports sent to a VRPN context
MaxReports == 2
\* the largest sensor number of a tracker report
MaxSensor == 2
\* client interfaces of a VRPN context
MaxInterfaces == 2

-----------------------------------------------------------------------------
(* Fields and their conversion *)

DigitChars == <<"0", "1", "2", "3", "4", "5", "6", "7", "8", "9">>

\* the value of a digit character
DigitVal(c) == CHOOSE d \in 0..9 : DigitChars[d + 1] = c

IsDigit(c) == \E d \in 0..9 : DigitChars[d + 1] = c

RECURSIVE Digits(_)
\* the decimal text of a natural number
Digits(n) ==
    IF n < 10 THEN <<DigitChars[n + 1]>>
    ELSE Append(Digits(n \div 10), DigitChars[(n % 10) + 1])

RECURSIVE DecVal(_)
\* the number a sequence of digit characters denotes
DecVal(s) ==
    IF s = <<>> THEN 0
    ELSE 10 * DecVal(SubSeq(s, 1, Len(s) - 1)) + DigitVal(s[Len(s)])

\* FieldParserHelper::getFieldAs<T> and getField: <<success, value>>
getFieldAs(strField) ==
    IF strField # <<>> /\ \A i \in 1..Len(strField) : IsDigit(strField[i])
    THEN <<TRUE, DecVal(strField)>>
    ELSE <<FALSE, 0>>

-----------------------------------------------------------------------------
(* The input files the model reads *)

\* refx..refqz, sec, usec: the fields LoadRow requires before it sets ok
NumRequired == 9

MaxFields == NumRequired + MaxTrailing

\* the number written in the parseable field at (0-based) index i of line n
\* of the file (the header is line 0): no two fields of a file hold the same
FieldValue(n, i) == 100 * n + i + 1

GoodField(n, i) == Digits(FieldValue(n, i))

\* a field no numeric conversion accepts
BadField == <<"x">>

\* parseable fields at indices from..to of line n
GoodRange(n, from, to) ==
    [k \in 1..(to - from + 1) |-> GoodField(n, from + k - 1)]

\* the n-th data line: parseable fields, possibly one unparseable field among
\* them
DataLines(n) ==
    {GoodRange(n, 0, g - 1) : g \in 0..MaxFields}
    \cup
    {GoodRange(n, 0, g - 1) \o <<BadField>> \o GoodRange(n, g + 1, g + a) :
        g \in 0..(MaxFields - 1), a \in 0..MaxAfterBad}

\* a first line that would be valid data
NumericHeader == GoodRange(0, 0, NumRequired - 1)

\* first lines: empty, a title, or a line that would be valid data
HeaderLines == {<<>>, <<BadField, BadField>>, NumericHeader}

\* values left in storage that was never written
Garbage == {0, 99}

-----------------------------------------------------------------------------
(* TimestampedMeasurements and LoadRow *)

\* new TimestampedMeasurements: only ok and measurements are initialised
FreshRow(g) ==
    [tv |-> [seconds |-> g, microseconds |-> g],
     xlate |-> [i \in 0..2 |-> g],
     rot |-> [w |-> g, x |-> g, y |-> g, z |-> g],
     measurements |-> <<>>,
     ok |-> FALSE]

\* what a store through xlate[index] can do when index is outside 0..2
OobOutcomes == {"assert", "padding", "adjacent"}

\* row_.xlate[index] = val.  Inside 0..2 the component is written.  Outside,
\* Eigen's index assertion ends the program when assertions are compiled in
\* (see XlateCrashes); otherwise the store lands after the three components:
\* in alignment padding, or in the first coefficient (x) of the member that
\* follows, rot.
XlateStore(row, index, val, oob) ==
    IF index \in 0..2 THEN [row EXCEPT !.xlate[index] = val]
    ELSE IF oob = "adjacent" THEN [row EXCEPT !.rot.x = val]
    ELSE row

XlateCrashes(index, oob) == index \notin 0..2 /\ oob = "assert"

\* QuatStore with the first two cases exchanged
QuatStoreXW(row, f, val) ==
    CASE f = 4 -> [row EXCEPT !.rot.x = val]
      [] f = 5 -> [row EXCEPT !.rot.w = val]
      [] f = 6 -> [row EXCEPT !.rot.y = val]
      [] f = 7 -> [row EXCEPT !.rot.z = val]
      [] OTHER -> row

\* the switch over field_ 4..7
QuatStore(row, f, val) ==
    CASE f = 4 -> [row EXCEPT !.rot.w = val]
      [] f = 5 -> [row EXCEPT !.rot.x = val]
      [] f = 6 -> [row EXCEPT !.rot.y = val]
      [] f = 7 -> [row EXCEPT !.rot.z = val]
      [] OTHER -> row

\* BeaconPush without measurementPieces_.clear()
BeaconPushNoClear(row, pieces, val) ==
    LET pushed == Append(pieces, val)
    IN IF Len(pushed) = 3
       THEN <<[row EXCEPT !.measurements =
                   Append(@, [x |-> pushed[1], y |-> pushed[2],
                              size |-> pushed[3]])],
              pushed>>
       ELSE <<row, pushed>>

\* measurementPieces_.push_back(val) and the completion of a triple:
\* <<row, pieces>> afterwards
BeaconPush(row, pieces, val) ==
    LET pushed == Append(pieces, val)
    IN IF Len(pushed) = 3
       THEN <<[row EXCEPT !.measurements =
                   Append(@, [x |-> pushed[1], y |-> pushed[2],
                              size |-> pushed[3]])],
              <<>>>>
       ELSE <<row, pushed>>

\* SecStore that already marks the row ok
SecStoreMarksOk(row, p) ==
    IF p[1] THEN [row EXCEPT !.tv.seconds = p[2], !.ok = TRUE] ELSE row

\* field_ == 8: helper_.getField(strField, row_.tv.seconds)
SecStore(row, p) == IF p[1] THEN [row EXCEPT !.tv.seconds = p[2]] ELSE row

\* UsecStore that marks the row ok without looking at success
UsecStoreAlwaysOk(row, p) ==
    IF p[1] THEN [row EXCEPT !.tv.microseconds = p[2], !.ok = TRUE]
    ELSE [row EXCEPT !.ok = TRUE]

\* field_ == 9: helper_.getField(strField, row_.tv.microseconds), and
\* row_.ok = true on success
UsecStore(row, p) ==
    IF p[1] THEN [row EXCEPT !.tv.microseconds = p[2], !.ok = TRUE] ELSE row

\* LoadRow::operator(): the callback's effect on one field.  result is the
\* value returned to iterateFields, crashed says the call ended the program.
LoadRowCall(row, field0, pieces, strField, oob) ==
    LET f == field0 + 1
        p == getFieldAs(strField)
        out(r, ps, res, cr) ==
            [row |-> r, field_ |-> f, pieces |-> ps, result |-> res,
             crashed |-> cr]
    IN IF f <= 3 THEN
           IF ~p[1] THEN out(row, pieces, FALSE, FALSE)
           ELSE out(XlateStore(row, f, p[2], oob), pieces, TRUE,
                    XlateCrashes(f, oob))
       ELSE IF f <= 7 THEN
           IF ~p[1] THEN out(row, pieces, FALSE, FALSE)
           ELSE out(QuatStore(row, f, p[2]), pieces, TRUE, FALSE)
       ELSE IF f = 8 THEN out(SecStore(row, p), pieces, p[1], FALSE)
       ELSE IF f = 9 THEN out(UsecStore(row, p), pieces, p[1], FALSE)
       ELSE
           IF ~p[1] THEN out(row, pieces, FALSE, FALSE)
           ELSE LET bp == BeaconPush(row, pieces, p[2])
                IN out(bp[1], bp[2], TRUE, FALSE)

-----------------------------------------------------------------------------
(* loadData *)

\* the required fields 0..8 of a line are all there and all convert
LineComplete(line) ==
    /\ Len(line) >= NumRequired
    /\ \A i \in 1..NumRequired : getFieldAs(line[i])[1]

\* std::ifstream csvFile(fn); if (!csvFile) return ret;
OpenFile ==
    /\ pc = "open"
    /\ \E opened \in BOOLEAN :
         /\ csvFile' = IF opened THEN "good" ELSE "fail"
         /\ pc' = IF opened THEN "header" ELSE "done"
    /\ UNCHANGED <<filterVars, replayVars, otherVars>>
    /\ UNCHANGED <<headerRow, linesInFile, dataLine, linesRead, nextField, keepGoing, newRow,
                   field_, measurementPieces_, ret, reportedTotal, validLines>>

\* HeaderPresent that only looks at the stream
HeaderPresentStreamOnly(header, streamGood) == streamGood

\* the test of the header block: loading goes on only after a non-empty
\* first line was read
HeaderPresent(header, streamGood) == ~(header = <<>> \/ ~streamGood)

\* auto headerRow = getCleanLine(csvFile) and the test that follows; the read
\* fails only on a file that holds no line at all
ReadHeader ==
    /\ pc = "header"
    /\ \E streamGood \in (IF linesInFile = 0 THEN BOOLEAN ELSE {TRUE}) :
         \E header \in (IF streamGood THEN HeaderLines ELSE {<<>>}) :
            /\ headerRow' = <<header>>
            /\ csvFile' = IF streamGood THEN "good" ELSE "fail"
            /\ pc' = IF HeaderPresent(header, streamGood) THEN "getline"
                     ELSE "done"
    /\ UNCHANGED <<filterVars, replayVars, otherVars>>
    /\ UNCHANGED <<linesInFile, dataLine, linesRead, nextField, keepGoing,
                   newRow, field_, measurementPieces_, ret, reportedTotal,
                   validLines>>

\* dataLine = getCleanLine(csvFile) with the stream still good: the loop body
\* starts with a new row and a new LoadRow
GetLine ==
    /\ pc = "getline"
    /\ linesRead < linesInFile
    /\ \E line \in DataLines(linesRead + 1) :
         /\ dataLine' = line
         /\ validLines' = IF LineComplete(line)
                          THEN Append(validLines, linesRead + 1)
                          ELSE validLines
    /\ linesRead' = linesRead + 1
    /\ \E g \in Garbage : newRow' = <<FreshRow(g)>>
    /\ field_' = 0
    /\ measurementPieces_' = <<>>
    /\ nextField' = 1
    /\ keepGoing' = TRUE
    /\ pc' = "fields"
    /\ UNCHANGED <<filterVars, replayVars, otherVars>>
    /\ UNCHANGED <<csvFile, headerRow, linesInFile, ret, reportedTotal>>

\* getCleanLine at the end of the stream: the loop ends, the total is printed
EndOfFile ==
    /\ pc = "getline"
    /\ linesRead = linesInFile
    /\ csvFile' = "fail"
    /\ reportedTotal' = <<Len(ret)>>
    /\ pc' = "done"
    /\ UNCHANGED <<filterVars, replayVars, otherVars>>
    /\ UNCHANGED <<headerRow, linesInFile, dataLine, linesRead, nextField, keepGoing, newRow,
                   field_, measurementPieces_, ret, validLines>>

\* iterateFields calls the LoadRow on the next field of the line
FieldCallback ==
    /\ pc = "fields"
    /\ keepGoing
    /\ nextField <= Len(dataLine)
    /\ \E oob \in OobOutcomes :
         LET r == LoadRowCall(newRow[1], field_, measurementPieces_,
                              dataLine[nextField], oob)
         IN /\ newRow' = <<r.row>>
            /\ field_' = r.field_
            /\ measurementPieces_' = r.pieces
            /\ keepGoing' = r.result
            /\ pc' = IF r.crashed THEN "aborted" ELSE "fields"
    /\ nextField' = nextField + 1
    /\ UNCHANGED <<filterVars, replayVars, otherVars>>
    /\ UNCHANGED <<csvFile, headerRow, linesInFile, dataLine, linesRead, ret,
                   reportedTotal, validLines>>

\* AcceptRow that stores the row whether or not it is ok
AcceptRowAlways(log, rowPtr) == <<Append(log, rowPtr[1]), <<>>>>

\* if (newRow->ok) ret.emplace_back(std::move(newRow)); else a diagnostic:
\* <<ret, newRow>> afterwards
AcceptRow(log, rowPtr) ==
    IF rowPtr[1].ok THEN <<Append(log, rowPtr[1]), <<>>>> ELSE <<log, rowPtr>>

\* the end of iterateFields and the rest of the loop body
RowEnd ==
    /\ pc = "fields"
    /\ ~keepGoing \/ nextField > Len(dataLine)
    /\ LET a == AcceptRow(ret, newRow)
       IN /\ ret' = a[1]
          /\ newRow' = a[2]
    /\ pc' = "getline"
    /\ UNCHANGED <<filterVars, replayVars, otherVars>>
    /\ UNCHANGED <<csvFile, headerRow, linesInFile, dataLine, linesRead,
                   nextField, keepGoing, field_, measurementPieces_,
                   reportedTotal, validLines>>

LoadInit ==
    /\ pc = "open"
    /\ csvFile = "unopened"
    /\ headerRow = <<>>
    /\ linesInFile \in 0..MaxLines
    /\ dataLine = <<>>
    /\ linesRead = 0
    /\ nextField = 1
    /\ keepGoing = TRUE
    /\ newRow = <<>>
    /\ field_ = 0
    /\ measurementPieces_ = <<>>
    /\ ret = <<>>
    /\ reportedTotal = <<>>
    /\ validLines = <<>>

LoadNext ==
    \/ OpenFile
    \/ ReadHeader
    \/ GetLine
    \/ EndOfFile
    \/ FieldCallback
    \/ RowEnd

-----------------------------------------------------------------------------
(* Properties of loadData *)

\* the loop body has just finished with line number linesRead
AfterRow == pc = "getline" /\ linesRead > 0

\* ... and moved its row into ret
Accepted == AfterRow /\ newRow = <<>>

LastRow == ret[Len(ret)]

\* the (1-based) position of the first field of a line that does not convert,
\* Len(line) + 1 if all do
FirstBad(line) ==
    IF \A i \in 1..Len(line) : getFieldAs(line[i])[1] THEN Len(line) + 1
    ELSE CHOOSE i \in 1..Len(line) :
            /\ ~getFieldAs(line[i])[1]
            /\ \A j \in 1..(i - 1) : getFieldAs(line[j])[1]

\* the beacon built from the trailing fields 3k, 3k+1, 3k+2 of line n
BeaconOf(n, k) ==
    [x |-> FieldValue(n, NumRequired + 3 * k),
     y |-> FieldValue(n, NumRequired + 3 * k + 1),
     size |-> FieldValue(n, NumRequired + 3 * k + 2)]

\* C1: the accepted row's translation holds fields 0, 1, 2 of its line at
\* indices 0, 1, 2.
C1_TranslationInFieldOrder ==
    Accepted =>
        \A i \in 0..2 : LastRow.xlate[i] = FieldValue(linesRead, i)

\* C2: the accepted row's quaternion w, x, y, z are fields 3, 4, 5, 6 of its
\* line, and its timestamp's seconds and microseconds are fields 7 and 8.
C2_QuatAndTimeFields ==
    Accepted =>
        /\ LastRow.rot.w = FieldValue(linesRead, 3)
        /\ LastRow.rot.x = FieldValue(linesRead, 4)
        /\ LastRow.rot.y = FieldValue(linesRead, 5)
        /\ LastRow.rot.z = FieldValue(linesRead, 6)
        /\ LastRow.tv.seconds = FieldValue(linesRead, 7)
        /\ LastRow.tv.microseconds = FieldValue(linesRead, 8)

\* a line whose fields all convert was accepted
C2_Witness ==
    /\ Accepted
    /\ Len(dataLine) >= NumRequired
    /\ FirstBad(dataLine) > Len(dataLine)
    /\ LastRow.rot.w = FieldValue(linesRead, 3)

\* C3 as stated: a line with an unparseable field, wherever it is, never
\* yields a row of the log.
C3_AnyBadFieldDropsRow ==
    Accepted => FirstBad(dataLine) > Len(dataLine)

\* C3 as amended: an unparseable field among the nine required ones drops the
\* row; an unparseable field after them only ends the reading of the line, and
\* the row is kept with the beacons completed before it.
C3_BadRequiredFieldDropsRow ==
    AfterRow =>
        LET b == FirstBad(dataLine)
        IN /\ b <= NumRequired =>
                /\ newRow # <<>>
                /\ Len(ret) = Len(validLines)
           /\ (NumRequired < b /\ b <= Len(dataLine)) =>
                /\ newRow = <<>>
                /\ Len(LastRow.measurements) = (b - 1 - NumRequired) \div 3

\* the first line was dropped and the second was kept although one of its beacon fields is unparseable
C3_Witness ==
    /\ Accepted
    /\ linesRead = 2
    /\ validLines = <<2>>
    /\ Len(ret) = 1
    /\ FirstBad(dataLine) <= Len(dataLine)

\* C4: a line is accepted exactly if its fields 0..8 are present and
\* parseable, and the total printed is the number of data lines less the
\* number of lines that lack such a field.
C4_AcceptedIffRequiredFields ==
    /\ AfterRow => (newRow = <<>> <=> LineComplete(dataLine))
    /\ (pc = "done" /\ reportedTotal # <<>>) =>
          LET lacking == Cardinality({n \in 1..linesRead :
                             \A k \in 1..Len(validLines) : validLines[k] # n})
          IN /\ reportedTotal[1] = linesRead - lacking
             /\ Len(ret) = reportedTotal[1]

\* two data lines, one of them lacking a required field, and a total of 1
C4_Witness ==
    /\ pc = "done"
    /\ linesRead = 2
    /\ reportedTotal = <<1>>

\* C5 as stated: the beacons of an accepted row are the complete triples of
\* all the fields after the ninth.
C5_BeaconsOfAllTrailingFields ==
    Accepted =>
        LET T == Len(dataLine) - NumRequired
        IN /\ Len(LastRow.measurements) = T \div 3
           /\ \A k \in 0..((T \div 3) - 1) :
                LastRow.measurements[k + 1] = BeaconOf(linesRead, k)

\* C5 as amended: the beacons of an accepted row are the complete triples of
\* the trailing fields that precede the first unparseable one (of all of them
\* if every one converts); leftover fields give no beacon and the row stays.
C5_BeaconsOfParsedTrailingFields ==
    /\ Accepted =>
        LET T == (FirstBad(dataLine) - 1) - NumRequired
        IN /\ Len(LastRow.measurements) = T \div 3
           /\ \A k \in 0..((T \div 3) - 1) :
                LastRow.measurements[k + 1] = BeaconOf(linesRead, k)
    /\ (AfterRow /\ LineComplete(dataLine)) => newRow = <<>>

\* an accepted row with two beacons, and one with a beacon and leftover fields
C5_Witness ==
    /\ Accepted
    /\ Len(ret) = 2
    /\ Len(ret[1].measurements) = 2
    /\ Len(ret[2].measurements) = 1
    /\ Len(dataLine) - NumRequired \in {4, 5}

\* the rows of the log are the lines numbered vl, in that order
RetIsLines(vl) ==
    /\ Len(ret) = Len(vl)
    /\ \A k \in 1..Len(vl) :
          /\ ret[k].ok
          /\ ret[k].rot.w = FieldValue(vl[k], 3)
          /\ ret[k].rot.z = FieldValue(vl[k], 6)
          /\ ret[k].tv.seconds = FieldValue(vl[k], 7)
          /\ ret[k].tv.microseconds = FieldValue(vl[k], 8)

\* C6: with a non-empty header the log is the sequence of the valid data lines
\* in file order, without gaps, and the load reads on to the end of the file
\* whatever lines were invalid.
C6_LogIsValidLinesInOrder ==
    /\ pc \in {"getline", "done"} => RetIsLines(validLines)
    /\ pc \in {"fields", "aborted"} =>
          RetIsLines(SelectSeq(validLines, LAMBDA n : n # linesRead))
    /\ (pc = "done" /\ reportedTotal # <<>>) => linesRead = linesInFile

\* an invalid first line, a valid second line, and a log of that one row
C6_Witness ==
    /\ pc = "done"
    /\ linesRead = 2
    /\ validLines = <<2>>
    /\ Len(ret) = 1
    /\ ret[1].tv.seconds = FieldValue(2, 7)

\* C7: a file that cannot be opened, or whose first line is empty or missing,
\* gives an empty log and no data line is read; and no row ever comes from the
\* first line.
C7_HeaderNeverData ==
    /\ (pc = "done" /\ (headerRow = <<>> \/ headerRow = <<<<>>>>)) =>
          /\ ret = <<>>
          /\ linesRead = 0
    /\ Len(ret) <= linesRead
    /\ \A k \in 1..Len(ret) : ret[k].rot.w # FieldValue(0, 3)

\* a first line of nine numbers, an empty header before data lines
C7_Witness ==
    /\ pc = "done"
    /\ headerRow = <<NumericHeader>>
    /\ linesInFile = 0
    /\ ret = <<>>

-----------------------------------------------------------------------------
(* Time, the one-euro filter and PoseFilter *)

\* A duration (a double, in seconds, in the program) is a whole number of
\* microseconds here.
UsecPerSec == 1000000

\* the double 1
OneSecond == UsecPerSec

Abs(v) == IF v < 0 THEN 0 - v ELSE v

\* util::filters::LowPassFilter::filter with alpha = a[1] / a[2]
LowPassFilter(f, x, a) ==
    IF f.firstTime THEN [firstTime |-> FALSE, hatx |-> x]
    ELSE [firstTime |-> FALSE,
          hatx |-> (a[1] * x + (a[2] - a[1]) * f.hatx) \div a[2]]

\* one_euro computeAlpha: 1 / (1 + tau / dt) with tau = 1 / (2 pi cutoff), as
\* <<numerator, denominator>> in thousandths; the cutoff is given in
\* thousandths and 2 pi is taken as 6
computeAlpha(dt, cutoff) ==
    LET num == ((dt \div 1000) * 6 * cutoff) \div 1000
    IN <<num, num + 1000>>

\* util::filters::OneEuroFilter::filter with the default Params (minCutoff 1,
\* beta 1/2, derivativeCutoff 1).  The filtered quantity is one number, in
\* thousandths of its unit (millimetres for a position).
OneEuroFilter(s, dt, x) ==
    LET dx == IF s.firstTime THEN 0
              ELSE ((x - s.xFilter.hatx) * UsecPerSec) \div dt
        dxFilter == LowPassFilter(s.dxFilter, dx, computeAlpha(dt, 1000))
        cutoff == 1000 + (Abs(dxFilter.hatx) \div 2)
    IN [firstTime |-> FALSE,
        xFilter |-> LowPassFilter(s.xFilter, x, computeAlpha(dt, cutoff)),
        dxFilter |-> dxFilter]

\* a OneEuroFilter as constructed; g is what its unwritten state reads as
NewOneEuroFilter(g) ==
    [firstTime |-> TRUE,
     xFilter |-> [firstTime |-> TRUE, hatx |-> g],
     dxFilter |-> [firstTime |-> TRUE, hatx |-> g]]

\* PoseFilter::PoseFilter
NewPoseFilter(g) ==
    [m_positionFilter |-> NewOneEuroFilter(g),
     m_orientationFilter |-> NewOneEuroFilter(g)]

\* ClampDt that only replaces a zero dt
ClampDtZeroOnly(dt) == IF dt = 0 THEN OneSecond ELSE dt

\* if (dt <= 0) dt = 1;
ClampDt(dt) == IF dt <= 0 THEN OneSecond ELSE dt

\* PoseFilter::filter
PoseFilterFilter(pf, dt, position, orientation) ==
    LET d == ClampDt(dt)
    IN [m_positionFilter |-> OneEuroFilter(pf.m_positionFilter, d, position),
        m_orientationFilter |->
            OneEuroFilter(pf.m_orientationFilter, d, orientation)]

\* PoseFilter::getPosition and getOrientation
getPosition(pf) == pf.m_positionFilter.xFilter.hatx

getOrientation(pf) == pf.m_orientationFilter.xFilter.hatx

\* the time steps, positions and orientations handed to a PoseFilter
FilterDts ==
    {0 - 5 * UsecPerSec, 0 - (UsecPerSec \div 2), 0, UsecPerSec \div 2,
     UsecPerSec, 2 * UsecPerSec}

Positions == {0, 300, 600}

Orientations == {0, 400}

\* poseFilter.filter(dt, position, orientation)
FilterCall ==
    /\ pc = "objects"
    /\ filterCalls < MaxFilterCalls
    /\ \E dt \in FilterDts, position \in Positions, orientation \in Orientations :
         /\ poseFilter' = PoseFilterFilter(poseFilter, dt, position, orientation)
         /\ filterCall' = <<[dt |-> dt, position |-> position,
                             orientation |-> orientation, before |-> poseFilter]>>
    /\ filterCalls' = filterCalls + 1
    /\ UNCHANGED <<loadVars, replayVars, otherVars>>

FilterObjInit ==
    /\ \E g \in Garbage : poseFilter = NewPoseFilter(g)
    /\ filterCall = <<>>
    /\ filterCalls = 0

\* no file is being loaded
LoadIdle ==
    /\ pc = "objects"
    /\ csvFile = "unopened"
    /\ headerRow = <<>>
    /\ linesInFile = 0
    /\ dataLine = <<>>
    /\ linesRead = 0
    /\ nextField = 1
    /\ keepGoing = TRUE
    /\ newRow = <<>>
    /\ field_ = 0
    /\ measurementPieces_ = <<>>
    /\ ret = <<>>
    /\ reportedTotal = <<>>
    /\ validLines = <<>>

\* no PoseFilter is being exercised
FilterIdle ==
    /\ poseFilter = NewPoseFilter(0)
    /\ filterCall = <<>>
    /\ filterCalls = 0

-----------------------------------------------------------------------------
(* Properties of PoseFilter *)

\* C10: a call of filter with dt <= 0 leaves the smoothed position and
\* orientation, and the rest of the filter's state, as a call with dt = 1 from
\* the same state with the same inputs would; the call always takes effect.
C10_NonPositiveDtIsOne ==
    (filterCall # <<>> /\ filterCall[1].dt <= 0) =>
        LET c == filterCall[1]
            pos1 == OneEuroFilter(c.before.m_positionFilter, OneSecond,
                                  c.position)
            ori1 == OneEuroFilter(c.before.m_orientationFilter, OneSecond,
                                  c.orientation)
        IN /\ getPosition(poseFilter) = pos1.xFilter.hatx
           /\ getOrientation(poseFilter) = ori1.xFilter.hatx
           /\ poseFilter.m_positionFilter = pos1
           /\ poseFilter.m_orientationFilter = ori1
           /\ ~poseFilter.m_positionFilter.firstTime

\* a call with a negative dt on a filter that already holds a state, where a
\* call with that dt taken as given would have smoothed differently
C10_Witness ==
    /\ filterCall # <<>>
    /\ filterCall[1].dt < 0
    /\ ~filterCall[1].before.m_positionFilter.firstTime
    /\ getPosition(poseFilter) #
          OneEuroFilter(filterCall[1].before.m_positionFilter,
                        2 * UsecPerSec, filterCall[1].position).xFilter.hatx

-----------------------------------------------------------------------------
(* The tracking system and the two strategies *)

\* osvrTimeValueDurationSeconds(a, b): a - b
osvrTimeValueDurationSeconds(a, b) ==
    (a.seconds - b.seconds) * UsecPerSec + (a.microseconds - b.microseconds)

\* getHDKCameraParameters().createUndistortedVariant()
camParams == "undistorted HDK camera"

\* the system of makeHDKTrackingSystem(params): the target holds no LED yet and
\* the body no pose; g is what the unwritten pose reads as.  tv and camParams
\* are those of the last frame it was given, frames the number of frames
NewSystem(g) ==
    [leds |-> <<>>, hasPose |-> FALSE, pose |-> g, tv |-> <<>>,
     camParams |-> <<>>, frames |-> 0]

RECURSIVE SumX(_)
\* the sum of the image x coordinates of a sequence of LEDs
SumX(leds) == IF leds = <<>> THEN 0 ELSE leds[1].x + SumX(Tail(leds))

RECURSIVE SumY(_)
\* the sum of the image y coordinates of a sequence of LEDs
SumY(leds) == IF leds = <<>> THEN 0 ELSE leds[1].y + SumY(Tail(leds))

\* TrackedBodyTarget::uncalibratedRANSACPoseEstimateFromLeds(camParams, pos,
\* quat): a solve over the LEDs the target holds; it succeeds if there are any
uncalibratedRANSACPoseEstimateFromLeds(cam, sys) ==
    [ok |-> sys.leds # <<>>,
     pos |-> SumX(sys.leds),
     quat |-> SumY(sys.leds)]

\* TrackingSystem::updateBodiesFromVideoData: the target takes the frame's
\* LEDs, and the body has a pose estimate if the frame shows any
updateBodiesFromVideoData(sys, imageData) ==
    LET seen == [sys EXCEPT !.leds = imageData.ledMeasurements]
        solved == uncalibratedRANSACPoseEstimateFromLeds(imageData.camParams,
                                                         seen)
    IN [leds |-> imageData.ledMeasurements,
        hasPose |-> solved.ok,
        pose |-> IF solved.ok THEN solved.pos ELSE sys.pose,
        tv |-> <<imageData.tv>>,
        camParams |-> <<imageData.camParams>>,
        frames |-> sys.frames + 1]

\* makeImageOutputDataFromRow that leaves ledMeasurements empty
makeImageOutputDataWithoutLeds(row, cam) ==
    [tv |-> row.tv, ledMeasurements |-> <<>>, camParams |-> cam]

\* makeImageOutputDataFromRow: the frame handed to the tracking system
makeImageOutputDataFromRow(row, cam) ==
    [tv |-> row.tv, ledMeasurements |-> row.measurements, camParams |-> cam]

\* MainAlgoUnderStudy as constructed
NewMainAlgo(g) == [gotPose |-> FALSE, pose |-> g]

\* MainAlgoUnderStudy::operator(): <<the object, the system>> afterwards
MainAlgoUnderStudyCall(self, cam, sys, row) ==
    LET updated == updateBodiesFromVideoData(
                       sys, makeImageOutputDataFromRow(row, cam))
    IN <<[gotPose |-> updated.hasPose,
          pose |-> IF updated.hasPose THEN updated.pose ELSE self.pose],
         updated>>

\* RansacOneEuro as constructed: last is not initialised
NewRansacOneEuro(g) ==
    [ransacPoseFilter |-> NewPoseFilter(g),
     last |-> [seconds |-> g, microseconds |-> g],
     isFirst |-> TRUE,
     gotPose |-> FALSE]

\* a solve over the beacon measurements of the row itself
SolveFromRowBeacons(cam, sys, row) ==
    uncalibratedRANSACPoseEstimateFromLeds(
        cam, [sys EXCEPT !.leds = row.measurements])

\* auto gotRansac = target.uncalibratedRANSACPoseEstimateFromLeds(camParams,
\* pos, quat): the row is not an argument
SolveForRow(cam, sys, row) == uncalibratedRANSACPoseEstimateFromLeds(cam, sys)

\* RansacDt that takes the duration since last whatever the flag says
RansacDtFromLast(self, row) ==
    osvrTimeValueDurationSeconds(row.tv, self.last)

\* double dt = 1; if (isFirst) ... else dt = duration(row.tv, last)
RansacDt(self, row) ==
    IF self.isFirst THEN OneSecond
    ELSE osvrTimeValueDurationSeconds(row.tv, self.last)

\* RansacOneEuroCall with last = row.tv moved out of the if
RansacOneEuroCallLastAlways(self, cam, sys, row) ==
    LET solved == SolveForRow(cam, sys, row)
    IN IF solved.ok
       THEN [ransacPoseFilter |->
                 PoseFilterFilter(self.ransacPoseFilter, RansacDt(self, row),
                                  solved.pos, solved.quat),
             last |-> row.tv,
             isFirst |-> FALSE,
             gotPose |-> TRUE]
       ELSE [self EXCEPT !.gotPose = FALSE, !.last = row.tv]

\* RansacOneEuroCall without isFirst = false
RansacOneEuroCallKeepsFirst(self, cam, sys, row) ==
    LET solved == SolveForRow(cam, sys, row)
    IN IF solved.ok
       THEN [ransacPoseFilter |->
                 PoseFilterFilter(self.ransacPoseFilter, RansacDt(self, row),
                                  solved.pos, solved.quat),
             last |-> row.tv,
             isFirst |-> self.isFirst,
             gotPose |-> TRUE]
       ELSE [self EXCEPT !.gotPose = FALSE]

\* RansacOneEuroCall without gotPose = false at its start
RansacOneEuroCallKeepsGotPose(self, cam, sys, row) ==
    LET solved == SolveForRow(cam, sys, row)
    IN IF solved.ok
       THEN [ransacPoseFilter |->
                 PoseFilterFilter(self.ransacPoseFilter, RansacDt(self, row),
                                  solved.pos, solved.quat),
             last |-> row.tv,
             isFirst |-> FALSE,
             gotPose |-> TRUE]
       ELSE self

\* RansacOneEuro::operator(): the object afterwards
RansacOneEuroCall(self, cam, sys, row) ==
    LET solved == SolveForRow(cam, sys, row)
    IN IF solved.ok
       THEN [ransacPoseFilter |->
                 PoseFilterFilter(self.ransacPoseFilter, RansacDt(self, row),
                                  solved.pos, solved.quat),
             last |-> row.tv,
             isFirst |-> FALSE,
             gotPose |-> TRUE]
       ELSE [self EXCEPT !.gotPose = FALSE]

\* the rows replayed: timestamps in any order, zero or more beacons
Times == [seconds : 0..MaxSec, microseconds : {0, UsecPerSec \div 2}]

Beacon(k) == [x |-> 100 * k, y |-> 150 * k, size |-> 4]

BeaconList(n) == [k \in 1..n |-> Beacon(k)]

Rows == [tv : Times, measurements : {BeaconList(n) : n \in 0..MaxBeacons}]

\* the next row of the log
NextRow ==
    /\ pc = "objects"
    /\ stage = "row"
    /\ rowsReplayed < MaxRows
    /\ \E row \in Rows : replayRow' = <<row>>
    /\ rowsReplayed' = rowsReplayed + 1
    /\ stage' = "main"
    /\ UNCHANGED <<system, mainAlgo, ransacOneEuro, lastSuccess, ransacCall>>
    /\ UNCHANGED <<loadVars, filterVars, otherVars>>

\* mainAlgo(camParams, *system, target, *rowPtr)
MainAlgoStep ==
    /\ pc = "objects"
    /\ stage = "main"
    /\ LET r == MainAlgoUnderStudyCall(mainAlgo, camParams, system,
                                       replayRow[1])
       IN /\ mainAlgo' = r[1]
          /\ system' = r[2]
    /\ stage' = "ransac"
    /\ UNCHANGED <<ransacOneEuro, replayRow, rowsReplayed, lastSuccess,
                   ransacCall>>
    /\ UNCHANGED <<loadVars, filterVars, otherVars>>

\* ransacOneEuro(camParams, *system, target, *rowPtr), after mainAlgo or, with
\* that strategy left out for the row, by itself
RansacStep ==
    /\ pc = "objects"
    /\ stage \in {"main", "ransac"}
    /\ LET solved == SolveForRow(camParams, system, replayRow[1])
       IN /\ ransacOneEuro' = RansacOneEuroCall(ransacOneEuro, camParams,
                                                system, replayRow[1])
          /\ ransacCall' =
                <<[row |-> replayRow[1],
                   before |-> ransacOneEuro,
                   systemBefore |-> system,
                   mainAlgoBefore |-> mainAlgo,
                   afterMain |-> (stage = "ransac"),
                   prevSuccess |-> lastSuccess,
                   dt |-> IF solved.ok
                          THEN <<RansacDt(ransacOneEuro, replayRow[1])>>
                          ELSE <<>>]>>
          /\ lastSuccess' = IF solved.ok THEN <<replayRow[1].tv>>
                            ELSE lastSuccess
    /\ stage' = "row"
    /\ UNCHANGED <<system, mainAlgo, replayRow, rowsReplayed>>
    /\ UNCHANGED <<loadVars, filterVars, otherVars>>

ReplayObjInit ==
    /\ \E g \in Garbage :
         /\ system = NewSystem(g)
         /\ mainAlgo = NewMainAlgo(g)
         /\ ransacOneEuro = NewRansacOneEuro(g)
    /\ replayRow = <<>>
    /\ stage = "row"
    /\ rowsReplayed = 0
    /\ lastSuccess = <<>>
    /\ ransacCall = <<>>

\* no row is being replayed
ReplayIdle ==
    /\ system = NewSystem(0)
    /\ mainAlgo = NewMainAlgo(0)
    /\ ransacOneEuro = NewRansacOneEuro(0)
    /\ replayRow = <<>>
    /\ stage = "idle"
    /\ rowsReplayed = 0
    /\ lastSuccess = <<>>
    /\ ransacCall = <<>>

ReplayNext ==
    \/ NextRow
    \/ MainAlgoStep
    \/ RansacStep

-----------------------------------------------------------------------------
(* Properties of the strategies *)

\* C8: at every successful row but the first success, the dt handed to the
\* pose filter is the row's timestamp less the timestamp of the last row
\* RANSAC succeeded on before it, however many failed rows lie between.
C8_DtSinceLastSuccess ==
    (ransacCall # <<>> /\ ransacCall[1].dt # <<>>
        /\ ransacCall[1].prevSuccess # <<>>) =>
        ransacCall[1].dt[1] =
            osvrTimeValueDurationSeconds(ransacCall[1].row.tv,
                                         ransacCall[1].prevSuccess[1])

\* a success that follows a failed row, which itself followed a success at
\* another time
C8_Witness ==
    /\ ransacCall # <<>>
    /\ ransacCall[1].dt # <<>>
    /\ ransacCall[1].prevSuccess # <<>>
    /\ ~ransacCall[1].before.gotPose
    /\ rowsReplayed = 3
    /\ ransacCall[1].dt[1] > UsecPerSec

LastSolve ==
    SolveForRow(camParams, ransacCall[1].systemBefore, ransacCall[1].row)

\* C15: a successful row takes the dt = 1 path exactly if no row succeeded
\* before it, whatever its timestamp and however many rows failed before it;
\* the filter is then updated with dt = 1, and the flag is cleared from the
\* first success on.
C15_BootstrapOnFirstSuccessOnly ==
    /\ ransacOneEuro.isFirst <=> lastSuccess = <<>>
    /\ (ransacCall # <<>> /\ LastSolve.ok) =>
          LET c == ransacCall[1]
          IN /\ c.before.isFirst <=> c.prevSuccess = <<>>
             /\ c.before.isFirst =>
                   /\ c.dt = <<OneSecond>>
                   /\ ransacOneEuro.ransacPoseFilter =
                         PoseFilterFilter(c.before.ransacPoseFilter,
                                          OneSecond, LastSolve.pos,
                                          LastSolve.quat)
             /\ ~ransacOneEuro.isFirst

\* the first success came on the third row, after two failed rows, at a
\* timestamp other than zero
C15_Witness ==
    /\ ransacCall # <<>>
    /\ rowsReplayed = 3
    /\ LastSolve.ok
    /\ ransacCall[1].before.isFirst
    /\ ransacCall[1].row.tv.seconds = 1
    /\ ransacCall[1].dt = <<OneSecond>>
    /\ ~ransacOneEuro.isFirst

\* C16: the strategy's havePose after a call is the success of the solve on
\* that row; a failed solve leaves the last-success timestamp, the flag and
\* the pose filter as they were.
C16_FailureChangesNothing ==
    ransacCall # <<>> =>
        LET c == ransacCall[1]
        IN /\ ransacOneEuro.gotPose = LastSolve.ok
           /\ ~LastSolve.ok =>
                 /\ ~ransacOneEuro.gotPose
                 /\ ransacOneEuro.last = c.before.last
                 /\ ransacOneEuro.isFirst = c.before.isFirst
                 /\ ransacOneEuro.ransacPoseFilter = c.before.ransacPoseFilter

\* a failed row right after a successful one
C16_Witness ==
    /\ ransacCall # <<>>
    /\ ~LastSolve.ok
    /\ ransacCall[1].before.gotPose
    /\ ~ransacCall[1].before.isFirst
    /\ ~ransacOneEuro.gotPose
    /\ ransacOneEuro.last = lastSuccess[1]

\* C19: once the flag is cleared, last holds the timestamp of the last row
\* that succeeded; a dt computed from last is computed from such a timestamp;
\* and while the flag is set dt is 1 whatever the unwritten last holds.
C19_LastWrittenBeforeRead ==
    /\ ~ransacOneEuro.isFirst =>
          /\ lastSuccess # <<>>
          /\ ransacOneEuro.last = lastSuccess[1]
    /\ (ransacCall # <<>> /\ ransacCall[1].dt # <<>>) =>
          LET c == ransacCall[1]
          IN IF c.before.isFirst
             THEN c.dt[1] = OneSecond
             ELSE /\ c.prevSuccess # <<>>
                  /\ c.before.last = c.prevSuccess[1]
                  /\ c.dt[1] = osvrTimeValueDurationSeconds(c.row.tv,
                                                            c.before.last)

\* a success on the third row that computed dt from last, which the first row
\* had written and the failed second row had left alone
C19_Witness ==
    /\ ransacCall # <<>>
    /\ rowsReplayed = 3
    /\ ransacCall[1].dt # <<>>
    /\ ~ransacCall[1].before.isFirst
    /\ ~ransacCall[1].before.gotPose
    /\ ransacCall[1].before.last = ransacCall[1].prevSuccess[1]
    /\ ransacCall[1].dt[1] # OneSecond

-----------------------------------------------------------------------------
(* main: the replay of the loaded log through both strategies *)

\* the logs main can hold: rows that loadData accepted, in file order
Logs == UNION {[1..n -> Rows] : n \in 0..MaxLog}

\* the test of the range-for that stops before the last row
MoreRowsButLast(it, log) == it + 1 < Len(log)

\* the test of for (auto const &rowPtr : data): the position it (the number
\* of rows visited) is not the end of the log
MoreRows(it, log) == it < Len(log)

\* what MainAlgoUnderStudy::operator() writes to std::cout: it has no output
\* statement
MainAlgoUnderStudyPrints(self, cam, sys, row) == <<>>

\* what RansacOneEuro::operator() writes to std::cout: the filtered position,
\* on a row RANSAC succeeded on
RansacOneEuroPrints(self, cam, sys, row) ==
    IF SolveForRow(cam, sys, row).ok
    THEN <<getPosition(RansacOneEuroCall(self, cam, sys, row).ransacPoseFilter)>>
    ELSE <<>>

\* the range-for takes the next row of data
DriverFor ==
    /\ pc = "objects"
    /\ stage = "for"
    /\ MoreRows(dataIt, data)
    /\ dataIt' = dataIt + 1
    /\ replayRow' = <<data[dataIt + 1]>>
    /\ rowsReplayed' = rowsReplayed + 1
    /\ stage' = "mainAlgo"
    /\ UNCHANGED <<system, mainAlgo, ransacOneEuro, lastSuccess, ransacCall>>
    /\ UNCHANGED <<data, calls, stdout>>
    /\ UNCHANGED <<loadVars, filterVars, toolVars>>

\* mainAlgo(camParams, *system, target, *rowPtr)
DriverMainAlgo ==
    /\ pc = "objects"
    /\ stage = "mainAlgo"
    /\ LET r == MainAlgoUnderStudyCall(mainAlgo, camParams, system,
                                       replayRow[1])
           out == MainAlgoUnderStudyPrints(mainAlgo, camParams, system,
                                           replayRow[1])
       IN /\ mainAlgo' = r[1]
          /\ system' = r[2]
          /\ stdout' = stdout \o out
          /\ calls' = Append(calls,
                [strategy |-> "mainAlgo", index |-> dataIt,
                 row |-> replayRow[1], systemBefore |-> system,
                 systemAfter |-> r[2], havePose |-> r[1].gotPose,
                 pose |-> r[1].pose, printed |-> out])
    /\ stage' = "ransacOneEuro"
    /\ UNCHANGED <<ransacOneEuro, replayRow, rowsReplayed, lastSuccess,
                   ransacCall>>
    /\ UNCHANGED <<data, dataIt>>
    /\ UNCHANGED <<loadVars, filterVars, toolVars>>

\* ransacOneEuro(camParams, *system, target, *rowPtr), and the end of the
\* loop body
DriverRansacOneEuro ==
    /\ pc = "objects"
    /\ stage = "ransacOneEuro"
    /\ LET solved == SolveForRow(camParams, system, replayRow[1])
           after == RansacOneEuroCall(ransacOneEuro, camParams, system,
                                      replayRow[1])
           out == RansacOneEuroPrints(ransacOneEuro, camParams, system,
                                      replayRow[1])
       IN /\ ransacOneEuro' = after
          /\ stdout' = stdout \o out
          /\ calls' = Append(calls,
                [strategy |-> "ransacOneEuro", index |-> dataIt,
                 row |-> replayRow[1], systemBefore |-> system,
                 systemAfter |-> system, havePose |-> after.gotPose,
                 pose |-> getPosition(after.ransacPoseFilter),
                 printed |-> out])
          /\ lastSuccess' = IF solved.ok THEN <<replayRow[1].tv>>
                            ELSE lastSuccess
    /\ stage' = "for"
    /\ UNCHANGED <<system, mainAlgo, replayRow, rowsReplayed, ransacCall>>
    /\ UNCHANGED <<data, dataIt>>
    /\ UNCHANGED <<loadVars, filterVars, toolVars>>

\* the range-for is at the end of data: "Press enter to exit."
DriverExit ==
    /\ pc = "objects"
    /\ stage = "for"
    /\ ~MoreRows(dataIt, data)
    /\ stdout' = Append(stdout, "Press enter to exit.")
    /\ stage' = "exit"
    /\ UNCHANGED <<system, mainAlgo, ransacOneEuro, replayRow, rowsReplayed,
                   lastSuccess, ransacCall>>
    /\ UNCHANGED <<data, dataIt, calls>>
    /\ UNCHANGED <<loadVars, filterVars, toolVars>>

\* main after loadData returned and the system and the strategies were built
DriverObjInit ==
    /\ \E g \in Garbage :
         /\ system = NewSystem(g)
         /\ mainAlgo = NewMainAlgo(g)
         /\ ransacOneEuro = NewRansacOneEuro(g)
    /\ replayRow = <<>>
    /\ stage = "for"
    /\ rowsReplayed = 0
    /\ lastSuccess = <<>>
    /\ ransacCall = <<>>
    /\ data \in Logs
    /\ dataIt = 0
    /\ calls = <<>>
    /\ stdout = <<>>

\* main is not replaying a log
DriverIdle ==
    /\ data = <<>>
    /\ dataIt = 0
    /\ calls = <<>>
    /\ stdout = <<>>

DriverNext ==
    \/ DriverFor
    \/ DriverMainAlgo
    \/ DriverRansacOneEuro
    \/ DriverExit

-----------------------------------------------------------------------------
(* Properties of the replay driver *)

\* the strategy invoked by the k-th call of a replay in main's order
StrategyOfCall(k) == IF k % 2 = 1 THEN "mainAlgo" ELSE "ransacOneEuro"

\* C11: the k-th strategy invocation of the replay is on row (k + 1) div 2 of
\* the log, the Full-System strategy on the odd and RANSAC+Filter on the even
\* calls, with that row of the log as argument; when the replay has ended
\* there were exactly two invocations per row, none for an empty log.
C11_RowsInOrderEachStrategyOnce ==
    /\ \A k \in 1..Len(calls) :
          /\ calls[k].index = (k + 1) \div 2
          /\ calls[k].index <= Len(data)
          /\ calls[k].strategy = StrategyOfCall(k)
          /\ calls[k].row = data[(k + 1) \div 2]
    /\ stage = "for" => Len(calls) = 2 * dataIt
    /\ stage = "exit" => Len(calls) = 2 * Len(data)

\* the replay of a log of two different rows has ended
C11_Witness ==
    /\ stage = "exit"
    /\ Len(data) = 2
    /\ data[1] # data[2]
    /\ Len(calls) = 4
    /\ calls[3].row = data[2]

\* C12: every strategy invocation of the replay writes exactly one output for
\* its row, and after the replay there is one output per row and strategy.
C12_OneOutputPerRowAndStrategy ==
    /\ \A k \in 1..Len(calls) : Len(calls[k].printed) = 1
    /\ stage = "exit" => Len(stdout) = Len(calls) + 1

\* C17: every invocation of the Full-System strategy gives the tracking system
\* one frame, made of the row's timestamp, the row's beacon list and the
\* camera parameters; afterwards the strategy's flag is the body's
\* hasPoseEstimate, and its pose, when the flag is set, the body's pose.
C17_FullSystemReportsBodyVerbatim ==
    \A k \in 1..Len(calls) :
        calls[k].strategy = "mainAlgo" =>
            LET c == calls[k]
            IN /\ c.systemAfter.frames = c.systemBefore.frames + 1
               /\ c.systemAfter.frames = c.index
               /\ c.systemAfter.tv = <<data[c.index].tv>>
               /\ c.systemAfter.leds = data[c.index].measurements
               /\ c.systemAfter.camParams = <<camParams>>
               /\ c.havePose = c.systemAfter.hasPose
               /\ c.havePose => c.pose = c.systemAfter.pose

\* the Full-System strategy had a pose on the first row and none on the second
C17_Witness ==
    /\ Len(calls) = 4
    /\ calls[1].havePose
    /\ calls[1].pose = calls[1].systemAfter.pose
    /\ calls[1].systemAfter.leds # <<>>
    /\ ~calls[3].havePose
    /\ calls[3].systemAfter.frames = 2

-----------------------------------------------------------------------------
(* ParamVec, ConfigParams and updateConfigFromVec *)

\* A double of the parameter search is a whole number of 1e-8 here.

\* the values a ConfigParams field holds before the mapping, and the values of
\* a parameter vector's coefficients
FieldValues == {1, 2}

ParamValues == {0, 3}

\* Eigen::Vector4d
ParamVecs == [0..3 -> ParamValues]

\* ConfigParams objects: the six process-noise entries, the two scalars the
\* mapping writes, and others for all the fields it does not name
Configs ==
    [processNoiseAutocorrelation : [0..5 -> FieldValues],
     beaconProcessNoise : FieldValues,
     measurementVarianceScaleFactor : FieldValues,
     others : {"defaults", "tuned"}]

\* ConfigParams params; as its constructor leaves it
DefaultConfigParams ==
    [processNoiseAutocorrelation |-> [i \in 0..5 |-> 1],
     beaconProcessNoise |-> 1,
     measurementVarianceScaleFactor |-> 1,
     others |-> "defaults"]

\* updateConfigFromVec with the rotational entries taken from paramVec[0]
updateConfigFromVecPositionalTwice(cfg, paramVec) ==
    [cfg EXCEPT !.processNoiseAutocorrelation =
                    [i \in 0..5 |-> paramVec[0]],
                !.beaconProcessNoise = paramVec[2],
                !.measurementVarianceScaleFactor = paramVec[3]]

\* updateConfigFromVec: each chained assignment stores right to left
updateConfigFromVec(cfg, paramVec) ==
    LET p2 == [cfg EXCEPT !.processNoiseAutocorrelation[2] = paramVec[0]]
        p1 == [p2 EXCEPT !.processNoiseAutocorrelation[1] =
                             p2.processNoiseAutocorrelation[2]]
        p0 == [p1 EXCEPT !.processNoiseAutocorrelation[0] =
                             p1.processNoiseAutocorrelation[1]]
        p5 == [p0 EXCEPT !.processNoiseAutocorrelation[5] = paramVec[1]]
        p4 == [p5 EXCEPT !.processNoiseAutocorrelation[4] =
                             p5.processNoiseAutocorrelation[5]]
        p3 == [p4 EXCEPT !.processNoiseAutocorrelation[3] =
                             p4.processNoiseAutocorrelation[4]]
    IN [p3 EXCEPT !.beaconProcessNoise = paramVec[2],
                  !.measurementVarianceScaleFactor = paramVec[3]]

\* updateConfigFromVec(params, paramVec)
UpdateConfig ==
    /\ pc = "objects"
    /\ configCalls < MaxConfigCalls
    /\ \E paramVec \in ParamVecs :
         /\ params' = updateConfigFromVec(params, paramVec)
         /\ configCall' = <<[before |-> params, paramVec |-> paramVec]>>
    /\ configCalls' = configCalls + 1
    /\ UNCHANGED <<loadVars, filterVars, replayVars, driverVars, optVars,
                   vrpnVars>>

ConfigObjInit ==
    /\ params \in Configs
    /\ configCall = <<>>
    /\ configCalls = 0

\* no ConfigParams is being mapped
ConfigIdle ==
    /\ params = DefaultConfigParams
    /\ configCall = <<>>
    /\ configCalls = 0

\* C13: after updateConfigFromVec(params, [a, b, c, d]) the process-noise
\* entries 0, 1, 2 are a and 3, 4, 5 are b, the beacon process noise is c and
\* the measurement variance scale is d, whatever params held before; and the
\* fields the mapping does not name are as they were.
C13_ConfigFromVec ==
    configCall # <<>> =>
        LET v == configCall[1].paramVec
        IN /\ \A i \in 0..2 : params.processNoiseAutocorrelation[i] = v[0]
           /\ \A i \in 3..5 : params.processNoiseAutocorrelation[i] = v[1]
           /\ params.beaconProcessNoise = v[2]
           /\ params.measurementVarianceScaleFactor = v[3]
           /\ params.others = configCall[1].before.others
           /\ DOMAIN params = DOMAIN configCall[1].before
           /\ DOMAIN params.processNoiseAutocorrelation = 0..5

\* a vector of four different kinds was mapped onto a tuned ConfigParams whose
\* entries all differed from what the vector gives them
C13_Witness ==
    /\ configCall # <<>>
    /\ configCall[1].paramVec = [i \in 0..3 |-> IF i % 2 = 0 THEN 0 ELSE 3]
    /\ configCall[1].before.others = "tuned"
    /\ configCall[1].before.processNoiseAutocorrelation[0] = 2
    /\ params.processNoiseAutocorrelation[0] = 0
    /\ params.processNoiseAutocorrelation[5] = 3
    /\ params.others = "tuned"

-----------------------------------------------------------------------------
(* ei_newuoa and runOptimizer *)

\* ParamVec x = {4.14e-6, 1e-2, 0, 5e-2}
InitialX ==
    [i \in 0..3 |-> CASE i = 0 -> 414
                      [] i = 1 -> 1000000
                      [] i = 2 -> 0
                      [] i = 3 -> 5000000]

\* auto npt = x.size() * 2
NptFor(xv) == Cardinality(DOMAIN xv) * 2

\* the maxfun runOptimizer passes
MaxFun == 10

\* the radii 1e-8 and 1e-4 of runOptimizer
Radii == {1, 10000}

\* radius pairs handed to ei_newuoa: runOptimizer's {1e-8, 1e-4}, the same in
\* the other order, and pairs of equal radii
RadiusPairs == Radii \X Radii

\* the points newuoa evaluates: the origin and a step along each axis
Candidates ==
    {[i \in 0..3 |-> 0]} \cup
    {[i \in 0..3 |-> IF i = k THEN 3 ELSE 0] : k \in 0..3}

\* ei_newuoa without the exchange of the radii
ei_newuoaAsGiven(npt, xv, rhoPair, maxfun) ==
    LET n == Cardinality(DOMAIN xv)
    IN [n |-> n, npt |-> npt, x |-> xv,
        rhoBeg |-> rhoPair[1], rhoEnd |-> rhoPair[2],
        maxfun |-> maxfun,
        workingSpace |-> (npt + 13) * (npt + n) + (3 * n * (n + 3)) \div 2]

\* ei_newuoa up to its call of newuoa: the arguments newuoa is given
ei_newuoa(npt, xv, rhoPair, maxfun) ==
    LET swap == rhoPair[2] > rhoPair[1]
        rhoBeg == IF swap THEN rhoPair[2] ELSE rhoPair[1]
        rhoEnd == IF swap THEN rhoPair[1] ELSE rhoPair[2]
        n == Cardinality(DOMAIN xv)
    IN [n |-> n, npt |-> npt, x |-> xv,
        rhoBeg |-> rhoBeg, rhoEnd |-> rhoEnd,
        maxfun |-> maxfun,
        workingSpace |-> (npt + 13) * (npt + n) + (3 * n * (n + 3)) \div 2]

\* makeHDKTrackingSystem(params): a new system, configured by params
makeHDKTrackingSystem(cfg) == [params |-> cfg, body |-> NewSystem(0)]

\* the objective with the system built by the first evaluation and kept
ObjectiveKeepsSystem(left, n, xv) ==
    LET cfg == updateConfigFromVec(DefaultConfigParams, xv)
    IN [value |-> 0,
        params |-> cfg,
        system |-> IF left = <<>> THEN makeHDKTrackingSystem(cfg)
                   ELSE left[1].system]

\* the objective function of runOptimizer, called with n and the candidate;
\* left is what the locals of the evaluation before it held when they were
\* destroyed
Objective(left, n, xv) ==
    LET cfg == updateConfigFromVec(DefaultConfigParams, xv)
    IN [value |-> 0,
        params |-> cfg,
        system |-> makeHDKTrackingSystem(cfg)]

\* runOptimizer calls ei_newuoa, which calls newuoa
CallNewuoa ==
    /\ pc = "objects"
    /\ optStage = "runOptimizer"
    /\ newuoaArgs' = <<ei_newuoa(NptFor(optX), optX, rho, MaxFun)>>
    /\ optStage' = "newuoa"
    /\ UNCHANGED <<optX, rho, evals, evalCall, evalLeft, optRet>>
    /\ UNCHANGED <<loadVars, filterVars, replayVars, driverVars, configVars,
                   vrpnVars>>

\* newuoa evaluates the objective at a candidate of its choice, and may take
\* the candidate as its best point so far
Evaluate ==
    /\ pc = "objects"
    /\ optStage = "newuoa"
    /\ evals < newuoaArgs[1].maxfun
    /\ \E xv \in Candidates, better \in BOOLEAN :
         LET r == Objective(evalLeft, newuoaArgs[1].n, xv)
         IN /\ evalCall' = <<[x |-> xv, n |-> newuoaArgs[1].n,
                              left |-> evalLeft, result |-> r]>>
            /\ evalLeft' = <<[params |-> r.params, system |-> r.system]>>
            /\ optX' = IF better THEN xv ELSE optX
    /\ evals' = evals + 1
    /\ UNCHANGED <<optStage, rho, newuoaArgs, optRet>>
    /\ UNCHANGED <<loadVars, filterVars, replayVars, driverVars, configVars,
                   vrpnVars>>

\* newuoa returns the objective's value at its best point, ei_newuoa returns
\* it, runOptimizer prints it and returns x
ReturnFromNewuoa ==
    /\ pc = "objects"
    /\ optStage = "newuoa"
    /\ evals > 0
    /\ optRet' = <<evalCall[1].result.value>>
    /\ optStage' = "done"
    /\ UNCHANGED <<optX, rho, newuoaArgs, evals, evalCall, evalLeft>>
    /\ UNCHANGED <<loadVars, filterVars, replayVars, driverVars, configVars,
                   vrpnVars>>

OptObjInit ==
    /\ optStage = "runOptimizer"
    /\ optX = InitialX
    /\ rho \in RadiusPairs
    /\ newuoaArgs = <<>>
    /\ evals = 0
    /\ evalCall = <<>>
    /\ evalLeft = <<>>
    /\ optRet = <<>>

OptNext ==
    \/ CallNewuoa
    \/ Evaluate
    \/ ReturnFromNewuoa

\* runOptimizer is not running
OptIdle ==
    /\ optStage = "idle"
    /\ optX = <<>>
    /\ rho = <<>>
    /\ newuoaArgs = <<>>
    /\ evals = 0
    /\ evalCall = <<>>
    /\ evalLeft = <<>>
    /\ optRet = <<>>

\* C14: newuoa is given the larger radius of the pair as rhoBeg and the
\* smaller as rhoEnd, and all its arguments are those it would be given had
\* the pair been handed to ei_newuoa in the other order.
C14_RadiusOrderNormalised ==
    newuoaArgs # <<>> =>
        LET a == newuoaArgs[1]
        IN /\ a.rhoBeg >= a.rhoEnd
           /\ a.rhoBeg \in {rho[1], rho[2]}
           /\ a.rhoEnd \in {rho[1], rho[2]}
           /\ a.rhoBeg >= rho[1] /\ a.rhoBeg >= rho[2]
           /\ a.rhoEnd <= rho[1] /\ a.rhoEnd <= rho[2]
           /\ a = ei_newuoa(a.npt, a.x, <<rho[2], rho[1]>>, a.maxfun)

\* runOptimizer's own pair, the smaller radius first, was exchanged and the
\* optimizer has returned
C14_Witness ==
    /\ newuoaArgs # <<>>
    /\ rho = <<1, 10000>>
    /\ newuoaArgs[1].rhoBeg = 10000
    /\ newuoaArgs[1].rhoEnd = 1
    /\ optRet # <<>>

\* C18: an evaluation of the objective returns zero with a configuration
\* mapped from its candidate alone and a system built from that
\* configuration, and comes out as it would were it the first evaluation,
\* whatever the evaluations before it left.
C18_EvaluationsIsolated ==
    evalCall # <<>> =>
        LET e == evalCall[1]
        IN /\ e.result.value = 0
           /\ e.result.params = updateConfigFromVec(DefaultConfigParams, e.x)
           /\ e.result.system = makeHDKTrackingSystem(e.result.params)
           /\ e.result = Objective(<<>>, e.n, e.x)

\* an evaluation that followed the evaluation of another candidate
C18_Witness ==
    /\ evals >= 2
    /\ evalCall[1].left # <<>>
    /\ evalCall[1].left[1].params # evalCall[1].result.params
    /\ evalCall[1].result.system.params.beaconProcessNoise = evalCall[1].x[2]

-----------------------------------------------------------------------------
(* VRPNContext and VRPNRouter *)

\* m_routers, in the order the constructor pushes them
Routers == 1..3

\* the dest argument of each createRouter call
RouterDest(r) ==
    CASE r = 1 -> "/me/hands/left"
      [] r = 2 -> "/me/hands/right"
      [] r = 3 -> "/me/hands"

\* the src argument of each createRouter call
RouterSrc(r) == "org_opengoggles_bundled_Multiserver/RazerHydra0"

\* the predicate of each router
RouterPred(r, info) ==
    CASE r = 1 -> info.sensor = 0
      [] r = 2 -> info.sensor = 1
      [] r = 3 -> TRUE

\* the vrpn_TRACKERCB of the k-th report the tracker sends; quat is in
\* quatlib's order x, y, z, w
TrackerReport(k, sensor) ==
    [msg_time |-> k, sensor |-> sensor,
     pos |-> <<10 * k, 20 * k, 30 * k>>,
     quat |-> <<1, 2, 3, 4>>]

\* ogvrQuatFromQuatlib: from quatlib's x, y, z, w
ogvrQuatFromQuatlib(q) == [w |-> q[4], x |-> q[1], y |-> q[2], z |-> q[3]]

\* the OGVR_PoseReport handle builds
PoseReport(info) ==
    [sensor |-> info.sensor,
     pose |-> [rotation |-> ogvrQuatFromQuatlib(info.quat),
               translation |-> info.pos]]

\* iface->triggerCallbacks(timestamp, report) on every interface of the set
triggerCallbacks(got, ifaces, timestamp, report) ==
    [i \in DOMAIN got |->
        IF i \in ifaces THEN Append(got[i], <<timestamp, report>>)
        ELSE got[i]]

\* handle that calls the interfaces without asking the predicate
VRPNRouterHandleAll(r, info, ifaces, got) ==
    triggerCallbacks(got, ifaces, info.msg_time, PoseReport(info))

\* VRPNRouter::handle of router r: what the interfaces have got afterwards
VRPNRouterHandle(r, info, ifaces, got) ==
    IF RouterPred(r, info)
    THEN triggerCallbacks(got, ifaces, info.msg_time, PoseReport(info))
    ELSE got

\* the tracker sends a report: the remote of every router listening to that
\* source holds it until its mainloop runs
SendReport ==
    /\ pc = "objects"
    /\ updateIt = 0
    /\ Len(reportsSent) < MaxReports
    /\ \E sensor \in 0..MaxSensor :
         LET info == TrackerReport(Len(reportsSent) + 1, sensor)
         IN /\ reportsSent' = Append(reportsSent, info)
            /\ inbox' = [r \in Routers |->
                            IF RouterSrc(r) = RouterSrc(1)
                            THEN Append(inbox[r], info) ELSE inbox[r]]
    /\ UNCHANGED <<m_interfaces, updateIt, triggered>>
    /\ UNCHANGED <<loadVars, filterVars, replayVars, driverVars, configVars,
                   optVars>>

\* VRPNContext::m_update: m_conn->mainloop(), then the first router
BeginUpdate ==
    /\ pc = "objects"
    /\ updateIt = 0
    /\ updateIt' = 1
    /\ UNCHANGED <<m_interfaces, inbox, reportsSent, triggered>>
    /\ UNCHANGED <<loadVars, filterVars, replayVars, driverVars, configVars,
                   optVars>>

\* the mainloop of the router's remote calls the change handler with the next
\* report it holds
Handle ==
    /\ pc = "objects"
    /\ updateIt \in Routers
    /\ inbox[updateIt] # <<>>
    /\ triggered' = VRPNRouterHandle(updateIt, Head(inbox[updateIt]),
                                     m_interfaces, triggered)
    /\ inbox' = [inbox EXCEPT ![updateIt] = Tail(@)]
    /\ UNCHANGED <<m_interfaces, updateIt, reportsSent>>
    /\ UNCHANGED <<loadVars, filterVars, replayVars, driverVars, configVars,
                   optVars>>

\* the router's mainloop returns: the next router, or the end of m_update
RouterDone ==
    /\ pc = "objects"
    /\ updateIt \in Routers
    /\ inbox[updateIt] = <<>>
    /\ updateIt' = IF updateIt = 3 THEN 0 ELSE updateIt + 1
    /\ UNCHANGED <<m_interfaces, inbox, reportsSent, triggered>>
    /\ UNCHANGED <<loadVars, filterVars, replayVars, driverVars, configVars,
                   optVars>>

\* a context as constructed, with the interfaces its clients asked for
VrpnObjInit ==
    /\ m_interfaces \in {1..n : n \in 0..MaxInterfaces}
    /\ inbox = [r \in Routers |-> <<>>]
    /\ updateIt = 0
    /\ reportsSent = <<>>
    /\ triggered = [i \in m_interfaces |-> <<>>]

VrpnNext ==
    \/ SendReport
    \/ BeginUpdate
    \/ Handle
    \/ RouterDone

\* the number of times interface i got the report sent as the k-th
TimesTriggered(i, k) ==
    Cardinality({j \in 1..Len(triggered[i]) : triggered[i][j][1] = k})

\* router r still holds the k-th report
Holds(r, k) == \E j \in 1..Len(inbox[r]) : inbox[r][j].msg_time = k

\* C20: every interface has got each report once from every router that has
\* handled it and whose predicate accepts it, and from no other, whatever the
\* router's destination; and once an update has handled everything sent, a
\* report for sensor 0 or 1 has reached every interface twice and a report for
\* another sensor once.
C20_EveryInterfacePerAcceptingRouter ==
    \A i \in m_interfaces : \A k \in 1..Len(reportsSent) :
        /\ TimesTriggered(i, k) =
              Cardinality({r \in Routers :
                              /\ ~Holds(r, k)
                              /\ \/ r = 1 /\ reportsSent[k].sensor = 0
                                 \/ r = 2 /\ reportsSent[k].sensor = 1
                                 \/ r = 3})
        /\ (updateIt = 0 /\ \A r \in Routers : inbox[r] = <<>>) =>
              TimesTriggered(i, k) =
                 IF reportsSent[k].sensor \in {0, 1} THEN 2 ELSE 1
        /\ \A j \in 1..Len(triggered[i]) :
              triggered[i][j][1] = k =>
                 triggered[i][j][2] = PoseReport(reportsSent[k])

\* an update has handled a report for sensor 1 and a report for sensor 2, with
\* two interfaces in the context
C20_Witness ==
    /\ updateIt = 0
    /\ m_interfaces = {1, 2}
    /\ Len(reportsSent) = 2
    /\ reportsSent[1].sensor = 1
    /\ reportsSent[2].sensor = 2
    /\ \A r \in Routers : inbox[r] = <<>>
    /\ TimesTriggered(2, 1) = 2
    /\ TimesTriggered(2, 2) = 1

\* there is no VRPN context
VrpnIdle ==
    /\ m_interfaces = {}
    /\ inbox = <<>>
    /\ updateIt = 0
    /\ reportsSent = <<>>
    /\ triggered = <<>>

-----------------------------------------------------------------------------
(* The specifications: loadData, a PoseFilter by itself, and the replay of   *)
(* rows through the strategies                                               *)

\* neither the parameter mapping, nor the optimizer, nor the VRPN context is
\* in use
ToolsIdle == ConfigIdle /\ OptIdle /\ VrpnIdle

FilterInit ==
    LoadIdle /\ FilterObjInit /\ ReplayIdle /\ DriverIdle /\ ToolsIdle

FilterNext == FilterCall

FilterSpec == FilterInit /\ [][FilterNext]_vars

ReplayInit ==
    LoadIdle /\ FilterIdle /\ ReplayObjInit /\ DriverIdle /\ ToolsIdle

ReplaySpec == ReplayInit /\ [][ReplayNext]_vars

DriverInit == LoadIdle /\ FilterIdle /\ DriverObjInit /\ ToolsIdle

DriverSpec == DriverInit /\ [][DriverNext]_vars

ConfigInit ==
    /\ LoadIdle /\ FilterIdle /\ ReplayIdle /\ DriverIdle
    /\ ConfigObjInit /\ OptIdle /\ VrpnIdle

ConfigNext == UpdateConfig

ConfigSpec == ConfigInit /\ [][ConfigNext]_vars

OptInit ==
    /\ LoadIdle /\ FilterIdle /\ ReplayIdle /\ DriverIdle
    /\ ConfigIdle /\ OptObjInit /\ VrpnIdle

OptSpec == OptInit /\ [][OptNext]_vars

VrpnInit ==
    /\ LoadIdle /\ FilterIdle /\ ReplayIdle /\ DriverIdle
    /\ ConfigIdle /\ OptIdle /\ VrpnObjInit

VrpnSpec == VrpnInit /\ [][VrpnNext]_vars

Init == LoadInit /\ FilterIdle /\ ReplayIdle /\ DriverIdle /\ ToolsIdle

Next == LoadNext

Spec == Init /\ [][Next]_vars

====
